---- MODULE Spec2Model ----
(***************************************************************************)
(* The matching core of orderbook-rs: OrderBook (order_book.rs) with its   *)
(* two SideDepths, the price/order-id keys (ordering.rs) and the log       *)
(* records (log.rs).                                                       *)
(*                                                                         *)
(* Decimal values (size, funds, price) are fixed-point numbers; a value v  *)
(* is represented by the integer v * Unit, Unit = 10^MaxScale, so sizes    *)
(* and funds carry MaxScale decimal digits.  Input prices are whole        *)
(* numbers, which keeps size * price exact in this representation.         *)
(* Base.product_id and Base.time are not modelled (no operation reads      *)
(* them).                                                                  *)
(***************************************************************************)
EXTENDS Integers, Sequences, FiniteSets, TLC

\* ------------------------------------------------------------------ bounds
MaxScale  == 1      \* decimal digits carried by the representation
MaxPrice  == 2      \* input prices are 1 .. MaxPrice (whole numbers)
MaxSize   == 2      \* input sizes are 0 .. MaxSize (whole numbers)
MaxFunds  == 3      \* input funds are 0 .. MaxFunds (whole numbers)
MaxLogSeq == 3      \* no call starts once log_seq has reached this value
NumIds    == 2      \* order ids 1 .. NumIds, and one id beyond the window

\* --------------------------------------------------------------- constants
ORDER_ID_WINDOW_CAP == 10000
DecimalMax == 1000000000   \* stands for Decimal::MAX: above every price

RECURSIVE Pow10(_)
Pow10(n) == IF n = 0 THEN 1 ELSE 10 * Pow10(n - 1)

Unit == Pow10(MaxScale)

Min(a, b) == IF a <= b THEN a ELSE b

\* models::types (declared outside src/, enumerations only)
SideBuy  == "SideBuy"
SideSell == "SideSell"
OrderTypeLimit  == "OrderTypeLimit"
OrderTypeMarket == "OrderTypeMarket"
DONE_REASON_FILLED    == "Filled"
DONE_REASON_CANCELLED == "Cancelled"
LogTypeMatch == "LogTypeMatch"
LogTypeOpen  == "LogTypeOpen"
LogTypeDone  == "LogTypeDone"

\* ------------------------------------------------------------------ inputs
Ids    == (1 .. NumIds) \cup {ORDER_ID_WINDOW_CAP + 2}
Prices == {p * Unit : p \in 1 .. MaxPrice}
Sizes  == {s * Unit : s \in 0 .. MaxSize}
Funds  == {f * Unit : f \in 0 .. MaxFunds}
Scales == 0 .. MaxScale

\* Order values the dispatcher hands in.  Funds are only read for a Market
\* Buy and the price only for a Limit order, so the other orders carry zero.
LimitOrders ==
    [id : Ids, user_id : {1}, side : {SideBuy, SideSell}, type : {OrderTypeLimit},
     time_in_force : {"GTC"}, size : Sizes, funds : {0}, price : Prices]
MarketSellOrders ==
    [id : Ids, user_id : {1}, side : {SideSell}, type : {OrderTypeMarket},
     time_in_force : {"GTC"}, size : Sizes, funds : {0}, price : {0}]
MarketBuyOrders ==
    [id : Ids, user_id : {1}, side : {SideBuy}, type : {OrderTypeMarket},
     time_in_force : {"GTC"}, size : Sizes, funds : Funds, price : {0}]
Orders == LimitOrders \cup MarketSellOrders \cup MarketBuyOrders

\* cancel_order reads the id and the side of its order only
CancelRequests ==
    [id : Ids, user_id : {1}, side : {SideBuy, SideSell}, type : {OrderTypeLimit},
     time_in_force : {"GTC"}, size : {0}, funds : {0}, price : {0}]

\* nullify_order copies id, size, price and side into its DoneLog
NullifyRequests ==
    [id : Ids, user_id : {1}, side : {SideBuy, SideSell}, type : {OrderTypeLimit},
     time_in_force : {"GTC"}, size : Sizes, funds : {0}, price : {Unit}]

\* ------------------------------------------------------------- Decimal ops
\* Decimal::mul, exact because b is a whole number of Units
Mul(a, b) == (a * b) \div Unit

\* mutant of DivTrunc: the quotient rounded up at `scale` decimal digits
DivTrunc_RoundUp(funds, price, scale) ==
    ((funds * Pow10(scale) + price - 1) \div price) * (Unit \div Pow10(scale))

\* funds.div(price).trunc_with_scale(scale): the quotient cut after `scale`
\* decimal digits, toward zero
DivTrunc(funds, price, scale) ==
    ((funds * Pow10(scale)) \div price) * (Unit \div Pow10(scale))

\* ------------------------------------------------------------ ordering.rs
\* PriceOrderIdKeyAsc::cmp = Less
PriceOrderIdKeyAscLess(a, b) ==
    \/ a.price < b.price
    \/ a.price = b.price /\ a.order_id < b.order_id

\* PriceOrderIdKeyDesc::cmp = Less
PriceOrderIdKeyDescLess(a, b) ==
    \/ a.price > b.price
    \/ a.price = b.price /\ a.order_id < b.order_id

KeyLess(desc, a, b) ==
    IF desc THEN PriceOrderIdKeyDescLess(a, b) ELSE PriceOrderIdKeyAscLess(a, b)

\* ------------------------------------------------ BookOrder (order_book.rs)
new_book_order(order) ==
    [order_id |-> order.id, user_id |-> order.user_id, size |-> order.size,
     funds |-> order.funds, price |-> order.price, side |-> order.side,
     type |-> order.type, time_in_force |-> order.time_in_force]

\* BookOrder::default()
DefaultBookOrder ==
    [order_id |-> 0, user_id |-> 0, size |-> 0, funds |-> 0, price |-> 0,
     side |-> SideBuy, type |-> OrderTypeLimit, time_in_force |-> "GTC"]

\* ---------------------------------------------------------------- log.rs
new_open_log(log_seq, taker_order) ==
    [type |-> LogTypeOpen, sequence |-> log_seq,
     order_id |-> taker_order.order_id, user_id |-> taker_order.user_id,
     remaining_size |-> taker_order.size, price |-> taker_order.price,
     side |-> taker_order.side, time_in_force |-> taker_order.time_in_force]

new_done_log(log_seq, order, remaining_size, reason) ==
    [type |-> LogTypeDone, sequence |-> log_seq,
     order_id |-> order.order_id, user_id |-> order.user_id,
     price |-> order.price, remaining_size |-> remaining_size,
     reason |-> reason, side |-> order.side,
     time_in_force |-> order.time_in_force]

new_match_log(log_seq, trade_seq, taker_order, maker_order, price, size) ==
    [type |-> LogTypeMatch, sequence |-> log_seq, trade_seq |-> trade_seq,
     taker_order_id |-> taker_order.order_id,
     maker_order_id |-> maker_order.order_id,
     taker_user_id |-> taker_order.user_id,
     maker_user_id |-> maker_order.user_id,
     side |-> maker_order.side, price |-> price, size |-> size,
     taker_time_in_force |-> taker_order.time_in_force,
     maker_time_in_force |-> maker_order.time_in_force]

\* ------------------------------------------- SideDepth (matching::depth)
\* orders : order_id -> BookOrder; queue : the keys (price, order_id) of the
\* BTreeMap in key order, each mapping to its own order_id.
EmptyDepth == [orders |-> << >>, queue |-> << >>]

RemoveKey(queue, order_id) ==
    SelectSeq(queue, LAMBDA k : k.order_id # order_id)

InsertKey(queue, key, desc) ==
    LET rest   == SelectSeq(queue, LAMBDA k : k # key)
        before == SelectSeq(rest, LAMBDA k : KeyLess(desc, k, key))
        after  == SelectSeq(rest, LAMBDA k : ~KeyLess(desc, k, key))
    IN  before \o <<key>> \o after

DepthAdd(depth, order, desc) ==
    [orders |-> [i \in DOMAIN depth.orders \cup {order.order_id} |->
                    IF i = order.order_id THEN order ELSE depth.orders[i]],
     queue  |-> InsertKey(depth.queue,
                          [price |-> order.price, order_id |-> order.order_id],
                          desc)]

\* mutant of DepthDecrSize: an emptied order leaves orders but keeps its key
DepthDecrSize_KeepKey(depth, order_id, delta) ==
    IF order_id \notin DOMAIN depth.orders
      THEN [err |-> TRUE, depth |-> depth]
    ELSE IF delta > depth.orders[order_id].size
      THEN [err |-> TRUE, depth |-> depth]
    ELSE IF depth.orders[order_id].size - delta = 0
      THEN [err |-> FALSE,
            depth |-> [orders |-> [i \in DOMAIN depth.orders \ {order_id} |->
                                      depth.orders[i]],
                       queue  |-> depth.queue]]
    ELSE [err |-> FALSE,
          depth |-> [depth EXCEPT !.orders[order_id].size = @ - delta]]

\* decr_size: [err, depth]
DepthDecrSize(depth, order_id, delta) ==
    IF order_id \notin DOMAIN depth.orders
      THEN [err |-> TRUE, depth |-> depth]
    ELSE IF delta > depth.orders[order_id].size
      THEN [err |-> TRUE, depth |-> depth]
    ELSE IF depth.orders[order_id].size - delta = 0
      THEN [err |-> FALSE,
            depth |-> [orders |-> [i \in DOMAIN depth.orders \ {order_id} |->
                                      depth.orders[i]],
                       queue  |-> RemoveKey(depth.queue, order_id)]]
    ELSE [err |-> FALSE,
          depth |-> [depth EXCEPT !.orders[order_id].size = @ - delta]]

\* ------------------------------------------------- Window (utils::window)
NewWindow(min, max) == [min |-> min, max |-> max, seen |-> {}]

\* put: [err, window]; err is "none", "expired" or "existed"
WindowPut(w, id) ==
    IF id <= w.min THEN [err |-> "expired", window |-> w]
    ELSE IF id > w.max
      THEN LET delta == id - w.max
           IN  [err |-> "none",
                window |-> [min  |-> w.min + delta, max |-> id,
                            seen |-> {s \in w.seen : s > w.min + delta} \cup {id}]]
    ELSE IF id \in w.seen THEN [err |-> "existed", window |-> w]
    ELSE [err |-> "none", window |-> [w EXCEPT !.seen = @ \cup {id}]]

\* ------------------------------------------------ OrderBook (order_book.rs)
\* The book is the record [product, ask_depths, bid_depths, trade_seq,
\* log_seq, order_id_window]; an operation returns the book it leaves and
\* the batch it returns.

new_order_book(product) ==
    [product |-> product, ask_depths |-> EmptyDepth, bid_depths |-> EmptyDepth,
     trade_seq |-> 0, log_seq |-> 0,
     order_id_window |-> NewWindow(0, ORDER_ID_WINDOW_CAP)]

\* mutant of next_log_seq: the counter is returned without being advanced
next_log_seq_Stuck(log_seq) == log_seq

next_log_seq(log_seq) == log_seq + 1

next_trade_seq(trade_seq) == trade_seq + 1

\* the price a Market taker walks with
TakerPrice(taker_order) ==
    IF taker_order.type = OrderTypeMarket
      THEN (IF taker_order.side = SideBuy THEN DecimalMax ELSE 0)
      ELSE taker_order.price

\* the loop's break test, before a trade with the next maker
WalkBreaks(taker_order, maker_order) == taker_order.size = 0

\* Market Buy: the size the remaining funds buy at the maker's price
MarketBuySize(funds, price, base_scale, maker_size) ==
    Min(DivTrunc(funds, price, base_scale), maker_size)

\* the test that guards the maker's DoneLog: it reads the copy of the maker
\* taken before decr_size
MakerIsDone(maker_order) == maker_order.size = 0

\* One trade: MatchLog, then the maker's DoneLog when MakerIsDone.
\* st = [taker_order, depth, log_seq, trade_seq, logs, panicked]
Trade(st, taker_order, maker_order, size) ==
    LET d == DepthDecrSize(st.depth, maker_order.order_id, size)
        log_seq1  == next_log_seq(st.log_seq)
        trade_seq == next_trade_seq(st.trade_seq)
        match_log == new_match_log(log_seq1, trade_seq, taker_order,
                                   maker_order, maker_order.price, size)
        log_seq2  == next_log_seq(log_seq1)
        done_log  == new_done_log(log_seq2, maker_order, maker_order.size,
                                  DONE_REASON_FILLED)
    IN  IF d.err THEN [st EXCEPT !.panicked = TRUE]
        ELSE IF MakerIsDone(maker_order)
          THEN [taker_order |-> taker_order, depth |-> d.depth,
                log_seq |-> log_seq2, trade_seq |-> trade_seq,
                logs |-> st.logs \o <<match_log, done_log>>, panicked |-> FALSE]
          ELSE [taker_order |-> taker_order, depth |-> d.depth,
                log_seq |-> log_seq1, trade_seq |-> trade_seq,
                logs |-> Append(st.logs, match_log), panicked |-> FALSE]

\* mutant of SubSize: the trade is not taken off the taker's size
SubSize_Skip(taker_order, size) == taker_order

\* taker_order.size = taker_order.size.sub(size)
SubSize(taker_order, size) == [taker_order EXCEPT !.size = @ - size]

\* Side::SideBuy: the walk over the clone of ask_depths.queue
RECURSIVE WalkAsks(_, _, _, _)
WalkAsks(queue, i, base_scale, st) ==
    IF i > Len(queue) \/ st.panicked THEN st
    ELSE IF queue[i].order_id \notin DOMAIN st.depth.orders
      THEN [st EXCEPT !.panicked = TRUE]
    ELSE
      LET maker_order == st.depth.orders[queue[i].order_id]
          taker_order == st.taker_order
      IN  IF WalkBreaks(taker_order, maker_order) THEN st
          ELSE IF taker_order.type = OrderTypeLimit
            THEN LET size == Min(taker_order.size, maker_order.size)
                 IN  WalkAsks(queue, i + 1, base_scale,
                         Trade(st, SubSize(taker_order, size),
                               maker_order, size))
            ELSE LET size == MarketBuySize(taker_order.funds, maker_order.price,
                                           base_scale, maker_order.size)
                     funds == Mul(size, maker_order.price)
                 IN  WalkAsks(queue, i + 1, base_scale,
                         Trade(st, [taker_order EXCEPT !.funds = @ - funds],
                               maker_order, size))

\* Side::SideSell: the walk over the clone of bid_depths.queue
RECURSIVE WalkBids(_, _, _)
WalkBids(queue, i, st) ==
    IF i > Len(queue) \/ st.panicked THEN st
    ELSE IF queue[i].order_id \notin DOMAIN st.depth.orders
      THEN [st EXCEPT !.panicked = TRUE]
    ELSE
      LET maker_order == st.depth.orders[queue[i].order_id]
          taker_order == st.taker_order
      IN  IF WalkBreaks(taker_order, maker_order) THEN st
          ELSE LET size == Min(taker_order.size, maker_order.size)
               IN  WalkBids(queue, i + 1,
                       Trade(st, SubSize(taker_order, size),
                             maker_order, size))

\* mutant of TakerRests: f2 alone decides
TakerRests_AnyRemainder(taker_order) == taker_order.size > 0

\* mutant of TakerRests: f1 alone decides
TakerRests_AnyLimit(taker_order) == taker_order.type = OrderTypeLimit

\* f1 && f2: the taker rests
TakerRests(taker_order) ==
    taker_order.type = OrderTypeLimit /\ taker_order.size > 0

\* mutant of TakerDoneReason: a Market Buy is judged by its size, like a Sell
TakerDoneReason_SizeOnly(taker_order) ==
    IF taker_order.type = OrderTypeLimit THEN DONE_REASON_FILLED
    ELSE IF taker_order.size > 0 THEN DONE_REASON_CANCELLED
    ELSE DONE_REASON_FILLED

\* reason of the taker's DoneLog
TakerDoneReason(taker_order) ==
    IF taker_order.type = OrderTypeLimit THEN DONE_REASON_FILLED
    ELSE IF taker_order.side = SideSell
      THEN (IF taker_order.size > 0 THEN DONE_REASON_CANCELLED
                                    ELSE DONE_REASON_FILLED)
      ELSE (IF taker_order.funds > 0 THEN DONE_REASON_CANCELLED
                                     ELSE DONE_REASON_FILLED)

\* !f1: the price of a Market taker is cleared before its DoneLog
TakerAtDone(taker_order) ==
    IF taker_order.type = OrderTypeLimit THEN taker_order
    ELSE [taker_order EXCEPT !.price = 0]

\* the taker's DoneLog: a Market taker reports price 0 and remaining_size 0
TakerDoneLog(log_seq, taker_order) ==
    new_done_log(log_seq, TakerAtDone(taker_order),
                 IF taker_order.type = OrderTypeLimit THEN taker_order.size
                                                      ELSE 0,
                 TakerDoneReason(taker_order))

\* mutant of PushTerminal: the terminal record is put in front of the batch
PushTerminal_First(logs, log) == <<log>> \o logs

\* the batch with the taker's terminal record
PushTerminal(logs, log) == Append(logs, log)

\* apply_order past the dedup window
Admit(book, order) ==
    LET taker0 == [new_book_order(order) EXCEPT
                      !.price = TakerPrice(new_book_order(order))]
        st0 == [taker_order |-> taker0,
                depth |-> IF taker0.side = SideBuy THEN book.ask_depths
                                                   ELSE book.bid_depths,
                log_seq |-> book.log_seq, trade_seq |-> book.trade_seq,
                logs |-> << >>, panicked |-> FALSE]
        st == IF taker0.side = SideBuy
                THEN WalkAsks(book.ask_depths.queue, 1,
                              book.product.base_scale, st0)
                ELSE WalkBids(book.bid_depths.queue, 1, st0)
        taker_order == st.taker_order
        walked == IF taker0.side = SideBuy
                    THEN [book EXCEPT !.ask_depths = st.depth,
                                      !.log_seq = st.log_seq,
                                      !.trade_seq = st.trade_seq]
                    ELSE [book EXCEPT !.bid_depths = st.depth,
                                      !.log_seq = st.log_seq,
                                      !.trade_seq = st.trade_seq]
        log_seq == next_log_seq(st.log_seq)
    IN  IF st.panicked
          THEN [book |-> walked, logs |-> st.logs, taker_order |-> taker_order,
                rejected |-> FALSE, panicked |-> TRUE]
        ELSE IF TakerRests(taker_order)
          THEN [book |-> IF taker_order.side = SideBuy
                           THEN [walked EXCEPT
                                   !.bid_depths = DepthAdd(@, taker_order, TRUE),
                                   !.log_seq = log_seq]
                           ELSE [walked EXCEPT
                                   !.ask_depths = DepthAdd(@, taker_order, FALSE),
                                   !.log_seq = log_seq],
                logs |-> PushTerminal(st.logs, new_open_log(log_seq, taker_order)),
                taker_order |-> taker_order,
                rejected |-> FALSE, panicked |-> FALSE]
          ELSE [book |-> [walked EXCEPT !.log_seq = log_seq],
                logs |-> PushTerminal(st.logs, TakerDoneLog(log_seq, taker_order)),
                taker_order |-> TakerAtDone(taker_order),
                rejected |-> FALSE, panicked |-> FALSE]

\* the early return on a duplicate or expired id
Reject(book, order) ==
    [book |-> book, logs |-> << >>, taker_order |-> DefaultBookOrder,
     rejected |-> TRUE, panicked |-> FALSE]

\* mutant of apply_order: the result of put is ignored, as in cancel_order
apply_order_NoDedup(book, order) ==
    Admit([book EXCEPT !.order_id_window =
                           WindowPut(book.order_id_window, order.id).window],
          order)

apply_order(book, order) ==
    LET p == WindowPut(book.order_id_window, order.id)
    IN  IF p.err # "none" THEN Reject(book, order)
        ELSE Admit([book EXCEPT !.order_id_window = p.window], order)

\* the SideDepth cancel_order looks the order up in
CancelLooksInAsks(order) == order.side = SideBuy

\* mutant of CancelMiss: a DoneLog is emitted although nothing was found
CancelMiss_Done(book1, order) ==
    [book |-> [book1 EXCEPT !.log_seq = next_log_seq(book1.log_seq)],
     logs |-> <<new_done_log(next_log_seq(book1.log_seq), new_book_order(order),
                             order.size, DONE_REASON_CANCELLED)>>,
     taker_order |-> DefaultBookOrder, rejected |-> FALSE, panicked |-> FALSE]

\* !f: the order is not in the SideDepth looked at
CancelMiss(book1, order) ==
    [book |-> book1, logs |-> << >>, taker_order |-> DefaultBookOrder,
     rejected |-> FALSE, panicked |-> FALSE]

\* mutant of CancelDelta: only half of the size is taken off
CancelDelta_Half(o) == o.size \div 2

\* the size cancel_order hands to decr_size
CancelDelta(o) == o.size

cancel_order(book, order) ==
    LET p == WindowPut(book.order_id_window, order.id)
        book1 == [book EXCEPT !.order_id_window = p.window]
        depth == IF CancelLooksInAsks(order) THEN book1.ask_depths
                                             ELSE book1.bid_depths
    IN  IF order.id \notin DOMAIN depth.orders
          THEN CancelMiss(book1, order)
          ELSE
            LET o == depth.orders[order.id]
                d == DepthDecrSize(depth, order.id, CancelDelta(o))
                log_seq == next_log_seq(book1.log_seq)
                done_log == new_done_log(log_seq, o, o.size,
                                         DONE_REASON_CANCELLED)
            IN  IF d.err
                  THEN [book |-> book1, logs |-> << >>, taker_order |-> o,
                        rejected |-> FALSE, panicked |-> TRUE]
                  ELSE [book |-> IF CancelLooksInAsks(order)
                                   THEN [book1 EXCEPT !.ask_depths = d.depth,
                                                      !.log_seq = log_seq]
                                   ELSE [book1 EXCEPT !.bid_depths = d.depth,
                                                      !.log_seq = log_seq],
                        logs |-> <<done_log>>, taker_order |-> o,
                        rejected |-> FALSE, panicked |-> FALSE]

\* mutant of nullify_order: an id the window rejects is dropped, as in
\* apply_order
nullify_order_Dedup(book, order) ==
    LET p == WindowPut(book.order_id_window, order.id)
        log_seq == next_log_seq(book.log_seq)
        book_order == new_book_order(order)
    IN  IF p.err # "none"
          THEN [book |-> book, logs |-> << >>, taker_order |-> book_order,
                rejected |-> TRUE, panicked |-> FALSE]
          ELSE [book |-> [book EXCEPT !.order_id_window = p.window,
                                      !.log_seq = log_seq],
                logs |-> <<new_done_log(log_seq, book_order, order.size,
                                        DONE_REASON_CANCELLED)>>,
                taker_order |-> book_order, rejected |-> FALSE,
                panicked |-> FALSE]

nullify_order(book, order) ==
    LET p == WindowPut(book.order_id_window, order.id)
        log_seq == next_log_seq(book.log_seq)
        book_order == new_book_order(order)
    IN  [book |-> [book EXCEPT !.order_id_window = p.window,
                               !.log_seq = log_seq],
         logs |-> <<new_done_log(log_seq, book_order, order.size,
                                 DONE_REASON_CANCELLED)>>,
         taker_order |-> book_order, rejected |-> FALSE, panicked |-> FALSE]

\* ------------------------------------------- the two read-only predicates
\* Both take &self: they read the book and return a bool.  The unwrap of
\* orders.get(v) is the application orders[...], which has no value when the
\* id is missing.

\* the taker both predicates start from: the price of a Market taker is
\* replaced by Decimal::MAX (Buy) or Decimal::ZERO (Sell)
PredicateTaker(order) ==
    [new_book_order(order) EXCEPT !.price = TakerPrice(new_book_order(order))]

\* is_order_will_not_match: the taker's price against the first maker of the
\* opposite queue
is_order_will_not_match(b, order) ==
    LET taker_order == PredicateTaker(order)
    IN  IF taker_order.side = SideBuy
          THEN IF Len(b.ask_depths.queue) = 0 THEN TRUE
               ELSE LET maker_order ==
                            b.ask_depths.orders[b.ask_depths.queue[1].order_id]
                    IN  taker_order.price < maker_order.price
          ELSE IF Len(b.bid_depths.queue) = 0 THEN TRUE
               ELSE LET maker_order ==
                            b.bid_depths.orders[b.bid_depths.queue[1].order_id]
                    IN  taker_order.price > maker_order.price

\* Side::SideBuy of is_order_will_full_match: the walk over ask_depths.queue;
\* the Market branch takes the trade off the funds and leaves the size
RECURSIVE FullMatchWalkAsks(_, _, _, _, _)
FullMatchWalkAsks(queue, orders, i, base_scale, taker_order) ==
    IF i > Len(queue) THEN taker_order
    ELSE
      LET maker_order == orders[queue[i].order_id]
      IN  IF taker_order.size = 0 THEN taker_order
          ELSE IF taker_order.type = OrderTypeLimit
            THEN LET size == Min(taker_order.size, maker_order.size)
                 IN  FullMatchWalkAsks(queue, orders, i + 1, base_scale,
                         [taker_order EXCEPT !.size = @ - size])
            ELSE LET taker_size == DivTrunc(taker_order.funds,
                                            maker_order.price, base_scale)
                     size  == Min(taker_size, maker_order.size)
                     funds == Mul(size, maker_order.price)
                 IN  FullMatchWalkAsks(queue, orders, i + 1, base_scale,
                         [taker_order EXCEPT !.funds = @ - funds])

\* Side::SideSell of is_order_will_full_match: the walk over bid_depths.queue
RECURSIVE FullMatchWalkBids(_, _, _, _)
FullMatchWalkBids(queue, orders, i, taker_order) ==
    IF i > Len(queue) THEN taker_order
    ELSE
      LET maker_order == orders[queue[i].order_id]
      IN  IF taker_order.size = 0 THEN taker_order
          ELSE LET size == Min(taker_order.size, maker_order.size)
               IN  FullMatchWalkBids(queue, orders, i + 1,
                       [taker_order EXCEPT !.size = @ - size])

\* is_order_will_full_match: a Limit taker is judged by the size the walk
\* leaves, every other taker is reported as fully matched
is_order_will_full_match(b, order) ==
    LET taker_order == PredicateTaker(order)
        walked == IF taker_order.side = SideBuy
                    THEN FullMatchWalkAsks(b.ask_depths.queue,
                             b.ask_depths.orders, 1, b.product.base_scale,
                             taker_order)
                    ELSE FullMatchWalkBids(b.bid_depths.queue,
                             b.bid_depths.orders, 1, taker_order)
    IN  IF taker_order.type = OrderTypeLimit THEN ~(walked.size > 0)
                                             ELSE TRUE

\* ------------------------------------------------------------ state machine
VARIABLES
    book,       \* the OrderBook
    panicked,   \* a panic! unwound the last call
    pre,        \* the OrderBook as the last call found it
    call,       \* the last call: [op, order]
    ret,        \* what the last call returned: [logs, taker_order, rejected]
    emitted,    \* number of log records returned so far
    hist,       \* the order ids of the records returned so far, by kind
    prehist     \* hist as the last call found it

vars == <<book, panicked, pre, call, ret, emitted, hist, prehist>>

\* the order ids of the records of one kind in a batch
OpenIds(batch) ==
    {batch[i].order_id : i \in {j \in 1 .. Len(batch) : batch[j].type = LogTypeOpen}}
DoneIds(batch) ==
    {batch[i].order_id : i \in {j \in 1 .. Len(batch) : batch[j].type = LogTypeDone}}

\* hist after a call of op has returned batch:
\*   inserted  - ids apply_order has rested (add, then OpenLog)
\*   done      - ids with a DoneLog from apply_order or cancel_order
\*   cancelled - ids with a DoneLog from cancel_order
\*   nullified - ids with a DoneLog from nullify_order
\*   nullfree  - ids with a DoneLog from nullify_order while not resting in b
Recorded(h, op, batch, b) ==
    [inserted  |-> h.inserted \cup (IF op = "apply_order" THEN OpenIds(batch) ELSE {}),
     done      |-> h.done \cup (IF op \in {"apply_order", "cancel_order"}
                                  THEN DoneIds(batch) ELSE {}),
     cancelled |-> h.cancelled \cup (IF op = "cancel_order" THEN DoneIds(batch) ELSE {}),
     nullified |-> h.nullified \cup (IF op = "nullify_order" THEN DoneIds(batch) ELSE {}),
     nullfree  |-> h.nullfree \cup
                     (IF op = "nullify_order"
                        THEN DoneIds(batch) \ (DOMAIN b.ask_depths.orders
                                                 \cup DOMAIN b.bid_depths.orders)
                        ELSE {})]

NoOrder ==
    [id |-> 0, user_id |-> 0, side |-> SideBuy, type |-> OrderTypeLimit,
     time_in_force |-> "GTC", size |-> 0, funds |-> 0, price |-> 0]

Init ==
    /\ \E base_scale \in Scales :
          book = new_order_book([base_scale |-> base_scale])
    /\ panicked = FALSE
    /\ pre = book
    /\ call = [op |-> "new_order_book", order |-> NoOrder]
    /\ ret = [logs |-> << >>, taker_order |-> DefaultBookOrder,
              rejected |-> FALSE]
    /\ emitted = 0
    /\ hist = [inserted |-> {}, done |-> {}, cancelled |-> {}, nullified |-> {},
               nullfree |-> {}]
    /\ prehist = hist

Returns(op, order, r) ==
    /\ book' = r.book
    /\ panicked' = r.panicked
    /\ pre' = book
    /\ call' = [op |-> op, order |-> order]
    /\ ret' = [logs |-> r.logs, taker_order |-> r.taker_order,
               rejected |-> r.rejected]
    /\ emitted' = emitted + Len(r.logs)
    /\ hist' = Recorded(hist, op, r.logs, book)
    /\ prehist' = hist

CanCall == ~panicked /\ book.log_seq < MaxLogSeq

ApplyOrder ==
    /\ CanCall
    /\ \E order \in Orders : Returns("apply_order", order, apply_order(book, order))

CancelOrder ==
    /\ CanCall
    /\ \E order \in CancelRequests :
          Returns("cancel_order", order, cancel_order(book, order))

NullifyOrder ==
    /\ CanCall
    /\ \E order \in NullifyRequests :
          Returns("nullify_order", order, nullify_order(book, order))

Next == ApplyOrder \/ CancelOrder \/ NullifyOrder

Spec == Init /\ [][Next]_vars

\* ----------------------------------------------------------- observations
logs  == ret.logs
order == call.order

Applied == call.op = "apply_order" /\ ~ret.rejected /\ ~panicked

IsMatch(l) == l.type = LogTypeMatch
IsDone(l)  == l.type = LogTypeDone
IsOpen(l)  == l.type = LogTypeOpen

MatchIdx == {i \in 1 .. Len(logs) : IsMatch(logs[i])}

\* sum of the sizes, and of size * price, over the MatchLogs logs[1 .. n]
RECURSIVE SumSize(_)
SumSize(n) ==
    IF n = 0 THEN 0
    ELSE SumSize(n - 1) + (IF IsMatch(logs[n]) THEN logs[n].size ELSE 0)

RECURSIVE SumCost(_)
SumCost(n) ==
    IF n = 0 THEN 0
    ELSE SumCost(n - 1)
           + (IF IsMatch(logs[n]) THEN Mul(logs[n].size, logs[n].price) ELSE 0)

\* the SideDepth the call walked, and the one the taker would rest in
PreOpposite  == IF order.side = SideBuy THEN pre.ask_depths ELSE pre.bid_depths
PostOpposite == IF order.side = SideBuy THEN book.ask_depths ELSE book.bid_depths
PostOwn      == IF order.side = SideBuy THEN book.bid_depths ELSE book.ask_depths

Resting(b) == DOMAIN b.ask_depths.orders \cup DOMAIN b.bid_depths.orders

\* the size the MatchLogs of the call leave of the input size
Remaining == order.size - SumSize(Len(logs))

\* one unit of the last decimal digit that base_scale keeps
Step == Unit \div Pow10(pre.product.base_scale)

\* ------------------------------------------------------------------ claims

\* C1: a Limit Buy never produces a MatchLog priced above its limit, a Limit
\* Sell never one priced below it, and a Limit order (of positive size) whose
\* price does not cross the best opposite price produces no MatchLog and
\* rests with its full size.
C1_LimitStopsAtCross ==
    (Applied /\ order.type = OrderTypeLimit) =>
        /\ \A i \in MatchIdx :
              IF order.side = SideBuy THEN logs[i].price <= order.price
                                      ELSE logs[i].price >= order.price
        /\ ( /\ order.size > 0
             /\ Len(PreOpposite.queue) > 0
             /\ IF order.side = SideBuy
                  THEN order.price < PreOpposite.queue[1].price
                  ELSE order.price > PreOpposite.queue[1].price )
           => /\ MatchIdx = {}
              /\ Len(logs) = 1
              /\ IsOpen(logs[1])
              /\ logs[1].remaining_size = order.size
              /\ order.id \in DOMAIN PostOwn.orders
              /\ PostOwn.orders[order.id].size = order.size

\* C2: a match that takes a maker's whole remaining size is followed at once
\* by that maker's DoneLog (Filled, remaining_size 0), and a maker that keeps
\* some size gets no DoneLog.
C2_MakerDoneFollowsMatch ==
    Applied =>
        /\ \A i \in MatchIdx :
              (logs[i].maker_order_id \notin DOMAIN PostOpposite.orders) =>
                  /\ i + 1 <= Len(logs)
                  /\ IsDone(logs[i + 1])
                  /\ logs[i + 1].order_id = logs[i].maker_order_id
                  /\ logs[i + 1].reason = DONE_REASON_FILLED
                  /\ logs[i + 1].remaining_size = 0
        /\ \A j \in 1 .. Len(logs) :
              (IsDone(logs[j]) /\ logs[j].order_id # order.id) =>
                  logs[j].order_id \notin DOMAIN PostOpposite.orders

\* C3: cancel_order with the id and side of an order that apply_order has
\* rested removes the order and emits exactly one DoneLog, Cancelled.
C3_CancelFindsRested ==
    ( /\ call.op = "cancel_order"
      /\ ~panicked
      /\ order.id \in DOMAIN (IF order.side = SideBuy
                                THEN pre.bid_depths.orders
                                ELSE pre.ask_depths.orders) )
    => /\ order.id \notin Resting(book)
       /\ Len(logs) = 1
       /\ IsDone(logs[1])
       /\ logs[1].order_id = order.id
       /\ logs[1].reason = DONE_REASON_CANCELLED

\* C4: apply_order with an id the window reports as duplicate or too old
\* returns an empty batch and leaves both SideDepths, log_seq and trade_seq
\* as they were.
C4_RejectedApplyIsNoOp ==
    ( /\ call.op = "apply_order"
      /\ WindowPut(pre.order_id_window, order.id).err # "none" )
    => /\ logs = << >>
       /\ book.ask_depths = pre.ask_depths
       /\ book.bid_depths = pre.bid_depths
       /\ book.log_seq = pre.log_seq
       /\ book.trade_seq = pre.trade_seq

C4_Witness ==
    /\ call.op = "apply_order"
    /\ WindowPut(pre.order_id_window, order.id).err = "existed"
    /\ order.id \in Resting(pre)
    /\ order.size > 0

\* the other rejection of C4: an id the window has slid past
C4_WitnessExpired ==
    /\ call.op = "apply_order"
    /\ WindowPut(pre.order_id_window, order.id).err = "expired"
    /\ order.size > 0
    /\ Resting(pre) # {}

\* C5: the sequence fields of the logs of every batch continue the count of
\* the logs emitted before it without gap or repeat, and log_seq is the
\* number of logs emitted so far.
C5_SequencesGapFree ==
    /\ \A i \in 1 .. Len(logs) : logs[i].sequence = pre.log_seq + i
    /\ book.log_seq = pre.log_seq + Len(logs)
    /\ book.log_seq = emitted

C5_Witness ==
    /\ call.op = "apply_order"
    /\ pre.log_seq >= 2
    /\ Len(logs) >= 3
    /\ emitted = pre.log_seq + Len(logs)

\* C6: a Market Buy with funds > 0 and size = 0 against a best ask it can
\* afford at base_scale emits a MatchLog for that ask and pays
\* trade_size * maker.price out of its funds.
C6_MarketBuyWalksOnFunds ==
    ( /\ Applied
      /\ order.type = OrderTypeMarket /\ order.side = SideBuy
      /\ order.size = 0 /\ order.funds > 0
      /\ Len(pre.ask_depths.queue) > 0
      /\ DivTrunc(order.funds, pre.ask_depths.queue[1].price,
                  pre.product.base_scale) > 0 )
    => /\ Len(logs) >= 2
       /\ IsMatch(logs[1])
       /\ logs[1].maker_order_id = pre.ask_depths.queue[1].order_id
       /\ logs[1].size > 0
       /\ ret.taker_order.funds
             <= order.funds - Mul(logs[1].size, logs[1].price)

\* C7: a Market Buy never overspends.  Every trade size is a multiple of
\* 10^-base_scale, at most the maker's size and at most what the funds left
\* buy at the maker's price, and it is the largest such size; the funds end
\* non-negative and the MatchLogs cost at most the input funds.
C7_MarketBuyNeverOverspends ==
    (Applied /\ order.type = OrderTypeMarket /\ order.side = SideBuy) =>
        /\ ret.taker_order.funds >= 0
        /\ SumCost(Len(logs)) <= order.funds
        /\ ret.taker_order.funds = order.funds - SumCost(Len(logs))
        /\ \A i \in MatchIdx :
              LET left  == order.funds - SumCost(i - 1)
                  maker == pre.ask_depths.orders[logs[i].maker_order_id]
              IN  /\ logs[i].size % Step = 0
                  /\ logs[i].size >= 0
                  /\ logs[i].size <= maker.size
                  /\ logs[i].size * logs[i].price <= left * Unit
                  /\ \/ logs[i].size = maker.size
                     \/ (logs[i].size + Step) * logs[i].price > left * Unit

\* a trade whose size the truncation decided: the funds left would buy more
\* than the trade, but not a whole further step
C7_Witness ==
    /\ Applied /\ order.type = OrderTypeMarket /\ order.side = SideBuy
    /\ \E i \in MatchIdx :
          LET left  == order.funds - SumCost(i - 1)
              maker == pre.ask_depths.orders[logs[i].maker_order_id]
          IN  /\ logs[i].size > 0
              /\ logs[i].size < maker.size
              /\ logs[i].size * logs[i].price < left * Unit

\* C8: the taker rests exactly when it is a Limit order with size left after
\* the walk; it is then in its own side with that size and its price, and
\* the batch ends with an OpenLog carrying them.  A Market order is in
\* neither side.
C8_RestsIffLimitWithRemainder ==
    Applied =>
        LET rests == order.type = OrderTypeLimit /\ Remaining > 0
            last  == logs[Len(logs)]
            key   == [price |-> order.price, order_id |-> order.id]
        IN  /\ Len(logs) >= 1
            /\ rests <=> IsOpen(last)
            /\ rests <=> order.id \in Resting(book)
            /\ rests =>
                  /\ order.id \in DOMAIN PostOwn.orders
                  /\ order.id \notin DOMAIN PostOpposite.orders
                  /\ PostOwn.orders[order.id].size = Remaining
                  /\ PostOwn.orders[order.id].price = order.price
                  /\ \E k \in 1 .. Len(PostOwn.queue) : PostOwn.queue[k] = key
                  /\ last.order_id = order.id
                  /\ last.remaining_size = Remaining
                  /\ last.price = order.price
            /\ order.type = OrderTypeMarket => order.id \notin Resting(book)

C8_Witness ==
    /\ Applied /\ order.type = OrderTypeLimit
    /\ SumSize(Len(logs)) > 0
    /\ Remaining > 0
    /\ IsOpen(logs[Len(logs)])
    /\ order.id \in DOMAIN PostOwn.orders

\* C9: the DoneLog that ends the batch of a Market taker has price 0 and
\* remaining_size 0, and its reason is Cancelled exactly when the walk left
\* the taker a residual (Sell: size > 0, Buy: funds > 0); the DoneLog that
\* ends the batch of a Limit taker has reason Filled.
C9_TakerDoneLog ==
    (Applied /\ Len(logs) >= 1 /\ IsDone(logs[Len(logs)])) =>
        LET last     == logs[Len(logs)]
            residual == IF order.side = SideSell
                          THEN Remaining > 0
                          ELSE order.funds - SumCost(Len(logs)) > 0
        IN  IF order.type = OrderTypeMarket
              THEN /\ last.price = 0
                   /\ last.remaining_size = 0
                   /\ (last.reason = DONE_REASON_CANCELLED) <=> residual
                   /\ (last.reason = DONE_REASON_FILLED) <=> ~residual
              ELSE /\ last.reason = DONE_REASON_FILLED
                   /\ last.remaining_size = 0

C9_Witness ==
    /\ Applied /\ order.type = OrderTypeMarket /\ order.side = SideBuy
    /\ SumCost(Len(logs)) > 0
    /\ order.funds - SumCost(Len(logs)) > 0
    /\ IsDone(logs[Len(logs)])
    /\ logs[Len(logs)].reason = DONE_REASON_CANCELLED

\* C10: a call the window admits returns a non-empty batch whose last record
\* is the only OpenLog or DoneLog about the taker; every record before it is
\* a MatchLog or the DoneLog of a maker.
C10_TerminalRecordLast ==
    Applied =>
        /\ Len(logs) >= 1
        /\ LET last == logs[Len(logs)]
           IN  (IsOpen(last) \/ IsDone(last)) /\ last.order_id = order.id
        /\ \A i \in 1 .. Len(logs) - 1 :
              \/ IsMatch(logs[i]) /\ logs[i].taker_order_id = order.id
              \/ IsDone(logs[i]) /\ logs[i].order_id # order.id

C10_Witness ==
    /\ Applied
    /\ Len(logs) >= 3
    /\ IsMatch(logs[1]) /\ IsMatch(logs[2])
    /\ logs[Len(logs)].order_id = order.id

\* the size of order id in a SideDepth, 0 when it is not there
SizeIn(depth, id) ==
    IF id \in DOMAIN depth.orders THEN depth.orders[id].size ELSE 0

\* maker a comes before maker b in the queue the call walked: better price
\* (asks: lower, bids: higher), or the same price and the lower order id
Better(a, b) ==
    LET pa == PreOpposite.orders[a].price
        pb == PreOpposite.orders[b].price
    IN  \/ IF order.side = SideBuy THEN pa < pb ELSE pa > pb
        \/ pa = pb /\ a < b

\* the SideDepth of book b that cancel_order looks the order up in
CancelDepth(b) == IF order.side = SideBuy THEN b.ask_depths ELSE b.bid_depths

CancelFound ==
    /\ call.op = "cancel_order" /\ ~panicked
    /\ order.id \in DOMAIN CancelDepth(pre).orders

\* C11: the makers of successive MatchLogs of one call go from best to worst
\* (asks by ascending price, bids by descending price, equal prices by
\* ascending order id), and a maker is named by a MatchLog only when every
\* maker of better priority has been consumed completely.
C11_PriceTimePriority ==
    Applied =>
        /\ \A i, j \in MatchIdx :
              i < j => Better(logs[i].maker_order_id, logs[j].maker_order_id)
        /\ \A i \in MatchIdx : \A m \in DOMAIN PreOpposite.orders :
              Better(m, logs[i].maker_order_id)
                  => m \notin DOMAIN PostOpposite.orders

\* C12 as claimed: when cancel_order finds the order, the order leaves orders
\* and queue and the one DoneLog is Cancelled with remaining_size = 0.
C12_CancelDoneRemainingZero ==
    CancelFound =>
        /\ order.id \notin DOMAIN CancelDepth(book).orders
        /\ \A k \in 1 .. Len(CancelDepth(book).queue) :
              CancelDepth(book).queue[k].order_id # order.id
        /\ Len(logs) = 1
        /\ IsDone(logs[1])
        /\ logs[1].reason = DONE_REASON_CANCELLED
        /\ logs[1].remaining_size = 0

\* C12 as amended: when cancel_order finds the order, the order leaves orders
\* and queue and the one DoneLog is Cancelled with remaining_size = the
\* (positive) size the order had when it was cancelled.
C12_CancelDoneRemainingSize ==
    CancelFound =>
        /\ order.id \notin DOMAIN CancelDepth(book).orders
        /\ \A k \in 1 .. Len(CancelDepth(book).queue) :
              CancelDepth(book).queue[k].order_id # order.id
        /\ Len(logs) = 1
        /\ IsDone(logs[1])
        /\ logs[1].order_id = order.id
        /\ logs[1].reason = DONE_REASON_CANCELLED
        /\ logs[1].remaining_size = CancelDepth(pre).orders[order.id].size
        /\ logs[1].remaining_size > 0

C12_Witness ==
    /\ CancelFound
    /\ Len(CancelDepth(pre).queue) = 2
    /\ Len(CancelDepth(book).queue) = 1
    /\ Len(logs) = 1

\* C13: over all cancel_order calls at most one DoneLog is emitted for an
\* id, and a cancel of an id that is not resting returns an empty batch and
\* leaves both SideDepths, log_seq and trade_seq as they were.
C13_CancelIdempotent ==
    call.op = "cancel_order" =>
        /\ Len(logs) <= 1
        /\ DoneIds(logs) \cap prehist.cancelled = {}
        /\ order.id \notin Resting(pre) =>
              /\ logs = << >>
              /\ book.ask_depths = pre.ask_depths
              /\ book.bid_depths = pre.bid_depths
              /\ book.log_seq = pre.log_seq
              /\ book.trade_seq = pre.trade_seq

\* a second cancel of an id that a cancel has already removed
C13_Witness ==
    /\ call.op = "cancel_order"
    /\ order.id \in prehist.cancelled
    /\ logs = << >>
    /\ book.log_seq = pre.log_seq

\* C14: nullify_order emits exactly one DoneLog, Cancelled, with
\* remaining_size = the input size, advances log_seq by one and leaves both
\* SideDepths and trade_seq as they were, whatever the id.
C14_NullifyAlwaysOneDone ==
    call.op = "nullify_order" =>
        /\ Len(logs) = 1
        /\ IsDone(logs[1])
        /\ logs[1].order_id = order.id
        /\ logs[1].reason = DONE_REASON_CANCELLED
        /\ logs[1].remaining_size = order.size
        /\ book.log_seq = pre.log_seq + 1
        /\ book.ask_depths = pre.ask_depths
        /\ book.bid_depths = pre.bid_depths
        /\ book.trade_seq = pre.trade_seq

\* a nullify of an id that is resting and that the window has seen
C14_Witness ==
    /\ call.op = "nullify_order"
    /\ order.id \in Resting(pre)
    /\ WindowPut(pre.order_id_window, order.id).err = "existed"
    /\ order.size > 0
    /\ Len(logs) = 1

\* C15: for a Limit or Market Sell taker the MatchLog sizes of the call sum
\* to at most the input size, and for a Limit taker the input size is that
\* sum plus the remaining_size of its OpenLog (plus zero when the batch ends
\* with a DoneLog).
C15_MatchedSizeBounded ==
    ( /\ Applied
      /\ order.type = OrderTypeLimit \/ order.side = SideSell )
    => /\ SumSize(Len(logs)) <= order.size
       /\ order.type = OrderTypeLimit =>
             order.size = SumSize(Len(logs))
                            + (IF IsOpen(logs[Len(logs)])
                                 THEN logs[Len(logs)].remaining_size ELSE 0)

\* a Limit taker that two makers fill
C15_Witness ==
    /\ Applied /\ order.type = OrderTypeLimit
    /\ Cardinality(MatchIdx) = 2
    /\ \A i \in MatchIdx : logs[i].size > 0
    /\ SumSize(Len(logs)) = order.size
    /\ IsDone(logs[Len(logs)])

\* queue and orders of one SideDepth agree: same ids, one key per order, and
\* each key carries the price of the order stored under its id
DepthConsistent(depth) ==
    /\ {depth.queue[k].order_id : k \in 1 .. Len(depth.queue)}
          = DOMAIN depth.orders
    /\ Len(depth.queue) = Cardinality(DOMAIN depth.orders)
    /\ \A k \in 1 .. Len(depth.queue) :
          /\ depth.queue[k].order_id \in DOMAIN depth.orders
          /\ depth.orders[depth.queue[k].order_id].price = depth.queue[k].price

\* the makers named by the MatchLogs of the last call
MakerIds == {logs[i].maker_order_id : i \in MatchIdx}

\* C16: in every reachable state each SideDepth's queue and orders map
\* describe the same set of order ids, and every queue key (price, order_id)
\* carries the price of the order stored under that id.
C16_QueueMatchesOrders ==
    /\ DepthConsistent(book.ask_depths)
    /\ DepthConsistent(book.bid_depths)

C16_Witness ==
    /\ Applied
    /\ \E i \in MatchIdx :
          logs[i].maker_order_id \notin DOMAIN PostOpposite.orders
    /\ DOMAIN PostOpposite.orders # {}

\* C17: in every reachable state every order resting in the ask or bid
\* SideDepth has strictly positive size: a maker reduced to zero by a match
\* or a cancel is removed, and a taker is only rested with size > 0.
C17_RestingSizePositive ==
    /\ \A id \in DOMAIN book.ask_depths.orders :
          book.ask_depths.orders[id].size > 0
    /\ \A id \in DOMAIN book.bid_depths.orders :
          book.bid_depths.orders[id].size > 0
    /\ Applied =>
          /\ \A i \in MatchIdx :
                SizeIn(PreOpposite, logs[i].maker_order_id) = logs[i].size
                    => logs[i].maker_order_id \notin DOMAIN PostOpposite.orders
          /\ order.id \in DOMAIN PostOwn.orders
                => PostOwn.orders[order.id].size > 0

C17_Witness ==
    /\ Applied
    /\ order.type = OrderTypeLimit
    /\ MatchIdx # {}
    /\ \A i \in MatchIdx :
          logs[i].maker_order_id \notin DOMAIN PostOpposite.orders
    /\ Remaining = 0
    /\ order.id \notin DOMAIN PostOwn.orders

\* C18: in every reachable state no order id rests in both the ask and the
\* bid SideDepth, and no order id is inserted into a SideDepth more than once
\* over the life of the book: an insertion is always of an id that was never
\* inserted before, and every resting id was inserted.
C18_IdRestsOnce ==
    /\ DOMAIN book.ask_depths.orders \cap DOMAIN book.bid_depths.orders = {}
    /\ call.op = "apply_order" => OpenIds(logs) \cap prehist.inserted = {}
    /\ Resting(book) \subseteq hist.inserted
    /\ Resting(book) \ Resting(pre) \subseteq OpenIds(logs)

C18_Witness ==
    /\ call.op = "apply_order"
    /\ order.id \in prehist.inserted
    /\ order.id \notin Resting(pre)
    /\ order.type = OrderTypeLimit
    /\ order.size > 0
    /\ ret.rejected

\* C19: every MatchLog emitted by apply_order has strictly positive size and
\* the named maker's resting size has decreased by exactly that amount;
\* apply_order never emits a zero-size MatchLog.
C19_MatchSizePositive ==
    Applied =>
        \A i \in MatchIdx :
            /\ logs[i].size > 0
            /\ SizeIn(PostOpposite, logs[i].maker_order_id)
                  = SizeIn(PreOpposite, logs[i].maker_order_id) - logs[i].size

\* the ids for which a call names a record that may not follow a DoneLog:
\* as maker of a MatchLog, or as the order of a DoneLog or an OpenLog
NamedIds ==
    IF call.op \in {"apply_order", "cancel_order"}
      THEN MakerIds \cup DoneIds(logs) \cup OpenIds(logs)
      ELSE {}

\* C20 as claimed: once a DoneLog has been emitted for an id by apply_order,
\* cancel_order or nullify_order, the id is not resting, and no later
\* MatchLog names it as maker and no later DoneLog or OpenLog is emitted for
\* it by apply_order or cancel_order.
C20_DoneIsFinal ==
    /\ (hist.done \cup hist.nullified) \cap Resting(book) = {}
    /\ NamedIds \cap (prehist.done \cup prehist.nullified) = {}

\* C20 as amended: the same, for the DoneLogs emitted by apply_order or
\* cancel_order and those emitted by nullify_order for an id that was not
\* resting when it was nullified.
C20_DoneIsFinalUnlessNullifiedResting ==
    /\ (hist.done \cup hist.nullfree) \cap Resting(book) = {}
    /\ NamedIds \cap (prehist.done \cup prehist.nullfree) = {}

C20_Witness ==
    /\ call.op \in {"apply_order", "cancel_order"}
    /\ order.id \in prehist.done
    /\ ~panicked
    /\ Resting(pre) # {}

C20_WitnessNullified ==
    /\ call.op = "apply_order"
    /\ order.id \in prehist.nullfree
    /\ order.type = OrderTypeLimit
    /\ order.size > 0
    /\ ~panicked

\* the last call ended the taker with a DoneLog of reason Filled
TakerFilled ==
    /\ Len(logs) > 0
    /\ IsDone(logs[Len(logs)])
    /\ logs[Len(logs)].order_id = order.id
    /\ logs[Len(logs)].reason = DONE_REASON_FILLED

\* C21: for an order the dedup window accepts, is_order_will_not_match on
\* the book before the call is true exactly when apply_order of the same
\* order on that book emits no MatchLog.
C21_WillNotMatchAgrees ==
    Applied => (is_order_will_not_match(pre, order) <=> MatchIdx = {})

\* C22: for an order the dedup window accepts, is_order_will_full_match on
\* the book before the call is true exactly when apply_order of the same
\* order on that book ends the taker with a DoneLog of reason Filled.
C22_WillFullMatchAgrees ==
    Applied => (is_order_will_full_match(pre, order) <=> TakerFilled)

====
